---- MODULE Spec2Model ----
(***************************************************************************)
(* State-machine model of the insights front end: the document resource    *)
(* binding (getDocumentResource / triggerFetch), the Toast component, the   *)
(* chart block, the notebook page, the query list page with its           *)
(* type-selector dialog and the query selector with its create-query      *)
(* dialog.  Every remote call is a pair of steps: the call                 *)
(* is issued by the handler, and the promise is settled (resolved or        *)
(* rejected) by a later step; the handler's continuation runs in the        *)
(* settling step, as it does on the JavaScript event loop.                  *)
(***************************************************************************)
EXTENDS Integers, Sequences, FiniteSets, TLC

\* ------------------------------------------------------------------ bounds
NumResources == 2      \* document resource instances
MaxTriggers == 3       \* triggerFetch calls per resource instance
NumToasts == 2         \* Toast component instances
MaxTimeout == 3        \* largest timeout prop, in clock ticks
MaxDeleteClicks == 3   \* clicks on the delete dialog's Yes button
MaxAddClicks == 2      \* clicks on the dashboard dialog's Add button
MaxTypeClicks == 2     \* clicks on options of the type-selector dialog
MaxDismissals == 2     \* dismissals of the type-selector dialog
MaxSelectorClicks == 3 \* clicks on Discard and Done in the create-query dialog

Resources == 1..NumResources
Toasts == 1..NumToasts
DeleteClicks == 1..MaxDeleteClicks

\* The notebooks the server holds at first, and the one the page shows.
Notebooks == {"NB-1", "NB-2"}
PropsNotebook == "NB-1"

AddClicks == 1..MaxAddClicks

\* JavaScript's undefined and null, and the values `!v` takes for true.
Undefined == "undefined"
Null == "null"
Falsy(v) == v \in {Undefined, Null, ""}

\* The chartName props a chart block is mounted with, the identifiers
\* createChart may return, and the dashboards of the Autocomplete.
ChartNameProps == {Undefined, "", "CHART-1"}
NewChartNames == {"CHART-101", "CHART-102"}
Dashboards == {"DASH-1", "DASH-2"}

TypeClicks == 1..MaxTypeClicks

\* queryBuilderTypes: each option's handler calls openQueryEditor with the
\* option's own type.
QueryBuilderTypes == <<"notebook", "visual", "classic">>
Options == DOMAIN QueryBuilderTypes

\* The rows a reload of the notebooks list may bring, and the names the
\* remote creates may return.
NotebookRows == {[name |-> "NB-UNCAT", title |-> "Uncategorized"],
                 [name |-> "NB-SALES", title |-> "Sales"]}
NewPageNames == {"PAGE-1"}
NewQueryNames == {"QRY-1"}

SelectorClicks == 1..MaxSelectorClicks

\* The names queries.create gives the queries made from the query selector:
\* the server names every new query afresh.
SelectorQueryNames == {"QRY-A", "QRY-B"}

VARIABLES
    \* --- document resource (src/unnamed/part_000)
    resCreated,     \* [Resources -> BOOLEAN]  getDocumentResource has returned it
    getLoading,     \* [Resources -> BOOLEAN]  resource.get.loading
    inFlight,       \* [Resources -> Nat]      get fetches issued and not settled
    fetchCalls,     \* [Resources -> Nat]      get fetches issued by triggerFetch
    trigCalls,      \* [Resources -> Nat]      triggerFetch invocations
    \* --- Toast (src/frontend/src/components/Toast.vue)
    toastPc,        \* [Toasts -> {"none","created","mounted"}]
    shown,          \* [Toasts -> BOOLEAN]     data().shown
    timer,          \* [Toasts -> {"unset","pending","fired"}]  the setTimeout
    timeLeft,       \* [Toasts -> 0..MaxTimeout]  ticks until the timer is due
    dismissed,      \* [Toasts -> BOOLEAN]     the dismiss button was clicked
    rootCount,      \* Nat: elements with id frappeui-toast-root in the document
    \* --- notebook page (src/frontend/src/notebook/Notebook.vue)
    nbServer,          \* notebooks the server holds
    nbList,            \* useNotebooks().list, as last reloaded
    showDeleteDialog,  \* ref(false)
    deleting,          \* notebook.deleting
    nbClicks,          \* clicks on Yes so far
    hdPc,              \* [DeleteClicks -> position of that click's handleDelete]
    nbLog,             \* what the handleDelete runs did, in order: <<event, click>>
    nbRoute,           \* the route shown: "Notebook" or "NotebookList"
    nbLastOp,          \* the user's or the event loop's last step on this page
    \* --- chart block (src/frontend/src/notebook/blocks/chart/ChartBlock.vue)
    cbPc,                \* position of the block's async setup
    chartNameProp,       \* props.chartName
    chart,               \* the name `chart` is bound to by useChart, or Null
    createCalls,         \* createChart() calls made
    createReturned,      \* what createChart() resolved with, or Null
    cbEmits,             \* events emitted by the block, in order
    showDashboardDialog, \* ref(false)
    toDashboard,         \* ref(null): the dashboard picked, or Null
    addClicks,           \* clicks on Add so far
    addPc,               \* [AddClicks -> position of that click's addToDashboard]
    addCalls,            \* chart.addToDashboard calls: <<click, dashboard>>
    notifications,       \* $notify calls: <<appearance, click>>
    cbLastOp,            \* the last step on this block: <<step, click>>
    \* --- query list page and its type-selector dialog
    \* (src/frontend/src/notebook/blocks/chart/ChartBlock.vue:176-303,
    \*  src/unnamed/part_001)
    new_dialog,        \* ref(false), the dialog's show prop
    showEmits,         \* values the dialog emitted as 'update:show'
    optionClicks,      \* [Options -> clicks on that option]
    handlerCalls,      \* [Options -> calls of that option's handler]
    typeClicks,        \* clicks on options so far
    oqePc,             \* [TypeClicks -> position of that click's openQueryEditor]
    oqeType,           \* [TypeClicks -> the type it was called with]
    oqeNotebook,       \* [TypeClicks -> the `uncategorized` it found]
    qlNotebooks,       \* notebooks.list
    qlReloading,       \* the notebooks.reload() of setup has not settled
    qlCalls,           \* remote creates issued: <<call, click, argument>>
    qlRoute,           \* the route shown
    \* --- query selector and its create-query dialog
    \* (src/frontend/src/dashboard/DashboardWidgetsOptions.vue:51-132)
    qsServer,          \* queries the server holds, of those made here
    qsCreated,         \* names queries.create has returned so far
    qsCreating,        \* queries.create calls issued and not settled
    newQuery,          \* ref(null): the created query's name, or Null
    showCreateQuery,   \* ref(false)
    qsDeleting,        \* queries.deleting
    qsClicks,          \* clicks on Discard and Done so far
    qsPc,              \* [SelectorClicks -> position of that click's handler]
    qsArg,             \* [SelectorClicks -> the name its delete call was given]
    qsDeleteCalls,     \* names queries.delete has been called with
    qsEmits            \* names emitted as 'update:modelValue', in order

resVars == <<resCreated, getLoading, inFlight, fetchCalls, trigCalls>>
toastVars == <<toastPc, shown, timer, timeLeft, dismissed, rootCount>>
nbVars == <<nbServer, nbList, showDeleteDialog, deleting, nbClicks, hdPc,
            nbLog, nbRoute, nbLastOp>>
cbVars == <<cbPc, chartNameProp, chart, createCalls, createReturned, cbEmits,
            showDashboardDialog, toDashboard, addClicks, addPc, addCalls,
            notifications, cbLastOp>>
qlVars == <<new_dialog, showEmits, optionClicks, handlerCalls, typeClicks,
            oqePc, oqeType, oqeNotebook, qlNotebooks, qlReloading, qlCalls,
            qlRoute>>
qsVars == <<qsServer, qsCreated, qsCreating, newQuery, showCreateQuery,
            qsDeleting, qsClicks, qsPc, qsArg, qsDeleteCalls, qsEmits>>
vars == <<resVars, toastVars, nbVars, cbVars, qlVars, qsVars>>

\* What each component's steps leave alone: the other components' state.
notResource == <<toastVars, nbVars, cbVars, qlVars, qsVars>>
notToast == <<resVars, nbVars, cbVars, qlVars, qsVars>>
notNotebook == <<resVars, toastVars, cbVars, qlVars, qsVars>>
notChart == <<resVars, toastVars, nbVars, qlVars, qsVars>>
notQueryList == <<resVars, toastVars, nbVars, cbVars, qsVars>>
notQuerySelector == <<resVars, toastVars, nbVars, cbVars, qlVars>>

\* ======================================================================
\* Document resource binding
\* ======================================================================
InitResource ==
    /\ resCreated = [r \in Resources |-> FALSE]
    /\ getLoading = [r \in Resources |-> FALSE]
    /\ inFlight = [r \in Resources |-> 0]
    /\ fetchCalls = [r \in Resources |-> 0]
    /\ trigCalls = [r \in Resources |-> 0]

\* resource.get.fetch(): the request is issued and get.loading is set
\* before the first suspension point.
GetFetch(r) ==
    /\ getLoading' = [getLoading EXCEPT ![r] = TRUE]
    /\ inFlight' = [inFlight EXCEPT ![r] = @ + 1]

\* getDocumentResource(doctype, docname, options): builds the resource and
\* attaches triggerFetch.  createDocumentResource may start the initial
\* load of the document itself (auto), which is one get fetch in flight.
GetDocumentResource(r) ==
    /\ ~resCreated[r]
    /\ resCreated' = [resCreated EXCEPT ![r] = TRUE]
    /\ \E auto \in BOOLEAN :
          IF auto THEN GetFetch(r)
                  ELSE UNCHANGED <<getLoading, inFlight>>
    /\ UNCHANGED <<fetchCalls, trigCalls, notResource>>

\* A triggerFetch that fetches whatever the loading flag says.
TriggerFetchUnguarded(r) ==
    /\ resCreated[r]
    /\ trigCalls[r] < MaxTriggers
    /\ trigCalls' = [trigCalls EXCEPT ![r] = @ + 1]
    /\ GetFetch(r)
    /\ fetchCalls' = [fetchCalls EXCEPT ![r] = @ + 1]
    /\ UNCHANGED <<resCreated, notResource>>

\* resource.triggerFetch = async () => {
\*     !resource.get.loading && (await resource.get.fetch()) }
TriggerFetch(r) ==
    /\ resCreated[r]
    /\ trigCalls[r] < MaxTriggers
    /\ trigCalls' = [trigCalls EXCEPT ![r] = @ + 1]
    /\ IF ~getLoading[r]
          THEN /\ GetFetch(r)
               /\ fetchCalls' = [fetchCalls EXCEPT ![r] = @ + 1]
          ELSE UNCHANGED <<getLoading, inFlight, fetchCalls>>
    /\ UNCHANGED <<resCreated, notResource>>

\* A get fetch settles (resolved or rejected): loading is cleared and the
\* awaiting triggerFetch, if any, returns.
FetchSettled(r) ==
    /\ inFlight[r] > 0
    /\ inFlight' = [inFlight EXCEPT ![r] = @ - 1]
    /\ getLoading' = [getLoading EXCEPT ![r] = FALSE]
    /\ UNCHANGED <<resCreated, fetchCalls, trigCalls, notResource>>

NextResource ==
    \/ \E r \in Resources : GetDocumentResource(r)
    \/ \E r \in Resources : TriggerFetch(r)
    \/ \E r \in Resources : FetchSettled(r)

\* ======================================================================
\* Toast
\* ======================================================================
InitToast ==
    /\ toastPc = [t \in Toasts |-> "none"]
    /\ shown = [t \in Toasts |-> FALSE]
    /\ timer = [t \in Toasts |-> "unset"]
    /\ timeLeft = [t \in Toasts |-> 0]
    /\ dismissed = [t \in Toasts |-> FALSE]
    /\ rootCount = 0

\* created() without the getElementById test: appends a root every time.
ToastCreatedAlwaysAppend(t) ==
    /\ toastPc[t] = "none"
    /\ toastPc' = [toastPc EXCEPT ![t] = "created"]
    /\ rootCount' = rootCount + 1
    /\ UNCHANGED <<shown, timer, timeLeft, dismissed, notToast>>

\* created(): if (!document.getElementById('frappeui-toast-root')) {
\*     ... document.body.appendChild(root) }
ToastCreated(t) ==
    /\ toastPc[t] = "none"
    /\ toastPc' = [toastPc EXCEPT ![t] = "created"]
    /\ rootCount' = IF rootCount = 0 THEN rootCount + 1 ELSE rootCount
    /\ UNCHANGED <<shown, timer, timeLeft, dismissed, notToast>>

\* mounted(): this.shown = true; setTimeout(() => {...}, this.timeout * 1000)
ToastMounted(t) ==
    /\ toastPc[t] = "created"
    /\ toastPc' = [toastPc EXCEPT ![t] = "mounted"]
    /\ shown' = [shown EXCEPT ![t] = TRUE]
    /\ timer' = [timer EXCEPT ![t] = "pending"]
    /\ \E timeout \in 0..MaxTimeout :
          timeLeft' = [timeLeft EXCEPT ![t] = timeout]
    /\ UNCHANGED <<dismissed, rootCount, notToast>>

\* The dismiss button, rendered inside <div v-if="shown">:
\* @click="shown = false".  The timer is not cleared.
ToastDismiss(t) ==
    /\ toastPc[t] = "mounted"
    /\ shown[t]
    /\ shown' = [shown EXCEPT ![t] = FALSE]
    /\ dismissed' = [dismissed EXCEPT ![t] = TRUE]
    /\ UNCHANGED <<toastPc, timer, timeLeft, rootCount, notToast>>

\* A timer callback that toggles the flag instead of clearing it.
ToastTimerFireToggle(t) ==
    /\ timer[t] = "pending"
    /\ timeLeft[t] = 0
    /\ timer' = [timer EXCEPT ![t] = "fired"]
    /\ shown' = [shown EXCEPT ![t] = ~shown[t]]
    /\ UNCHANGED <<toastPc, timeLeft, dismissed, rootCount, notToast>>

\* The setTimeout callback: () => { this.shown = false }
ToastTimerFire(t) ==
    /\ timer[t] = "pending"
    /\ timeLeft[t] = 0
    /\ timer' = [timer EXCEPT ![t] = "fired"]
    /\ shown' = [shown EXCEPT ![t] = FALSE]
    /\ UNCHANGED <<toastPc, timeLeft, dismissed, rootCount, notToast>>

\* One tick of the clock: every pending timer gets one tick closer.  A due
\* timer's callback runs before the clock moves on.
ToastTick ==
    /\ \E t \in Toasts : timer[t] = "pending"
    /\ \A t \in Toasts : timer[t] = "pending" => timeLeft[t] > 0
    /\ timeLeft' = [t \in Toasts |->
                       IF timer[t] = "pending" THEN timeLeft[t] - 1
                                               ELSE timeLeft[t]]
    /\ UNCHANGED <<toastPc, shown, timer, dismissed, rootCount, notToast>>

NextToast ==
    \/ \E t \in Toasts : ToastCreated(t)
    \/ \E t \in Toasts : ToastMounted(t)
    \/ \E t \in Toasts : ToastDismiss(t)
    \/ \E t \in Toasts : ToastTimerFire(t)
    \/ ToastTick

\* ======================================================================
\* Notebook page: the delete dialog and handleDelete
\* ======================================================================
InitNotebook ==
    /\ nbServer = Notebooks
    /\ nbList = Notebooks
    /\ showDeleteDialog = FALSE
    /\ deleting = FALSE
    /\ nbClicks = 0
    /\ hdPc = [i \in DeleteClicks |-> "idle"]
    /\ nbLog = <<>>
    /\ nbRoute = "Notebook"
    /\ nbLastOp = "none"

\* The page's controls exist while the page is the route shown.
NotebookMounted == nbRoute = "Notebook"

\* Dropdown option Delete: handler: () => (showDeleteDialog = true)
OpenDeleteDialog ==
    /\ NotebookMounted
    /\ ~showDeleteDialog
    /\ showDeleteDialog' = TRUE
    /\ nbLastOp' = "open"
    /\ UNCHANGED <<nbServer, nbList, deleting, nbClicks, hdPc, nbLog, nbRoute,
                   notNotebook>>

\* A Cancel button wired to the delete handler as well.
CancelDeleteRunsHandler ==
    /\ NotebookMounted
    /\ showDeleteDialog
    /\ showDeleteDialog' = FALSE
    /\ nbLog' = Append(nbLog, <<"deleteCall", 0>>)
    /\ nbServer' = nbServer \ {PropsNotebook}
    /\ nbLastOp' = "cancel"
    /\ UNCHANGED <<nbList, deleting, nbClicks, hdPc, nbRoute, notNotebook>>

\* <Button appearance="white" @click="showDeleteDialog = false">Cancel</Button>
CancelDelete ==
    /\ NotebookMounted
    /\ showDeleteDialog
    /\ showDeleteDialog' = FALSE
    /\ nbLastOp' = "cancel"
    /\ UNCHANGED <<nbServer, nbList, deleting, nbClicks, hdPc, nbLog, nbRoute,
                   notNotebook>>

\* notebook.deleteNotebook() is called: the binding raises its deleting
\* flag for the length of the remote call.
DeleteNotebookCalled == deleting' = TRUE

\* The remote delete succeeded: the server no longer holds the notebook and
\* the binding lowers its deleting flag.
DeleteNotebookSucceeded ==
    /\ PropsNotebook \in nbServer
    /\ nbServer' = nbServer \ {PropsNotebook}
    /\ deleting' = FALSE

\* The remote delete failed (the notebook is gone or referenced, or the
\* request failed).  Whether the binding lowers its deleting flag on a
\* failure is not fixed: either may happen.
DeleteNotebookFailed ==
    /\ \E flag \in BOOLEAN : deleting' = flag
    /\ UNCHANGED nbServer

\* useNotebooks().reload() resolved: the list is what the server holds.
NotebooksReloaded == nbList' = nbServer

\* A Yes button that takes clicks whatever its loading prop says.
YesEnabledAlways == TRUE

\* <Button ... @click="handleDelete" :loading="notebook.deleting">: a
\* loading Button is disabled and dispatches no click.
YesEnabled == ~deleting

\* A click on Yes.  On an enabled button it runs handleDelete up to its
\* first await: notebook.deleteNotebook() is called, which raises
\* notebook.deleting and issues the remote delete.
ClickYes ==
    /\ NotebookMounted
    /\ showDeleteDialog
    /\ nbClicks < MaxDeleteClicks
    /\ nbClicks' = nbClicks + 1
    /\ nbLastOp' = "yes"
    /\ IF YesEnabled
          THEN /\ hdPc' = [hdPc EXCEPT ![nbClicks + 1] = "awaitDelete"]
               /\ DeleteNotebookCalled
               /\ nbLog' = Append(nbLog, <<"deleteCall", nbClicks + 1>>)
          ELSE /\ hdPc' = [hdPc EXCEPT ![nbClicks + 1] = "ignored"]
               /\ UNCHANGED <<deleting, nbLog>>
    /\ UNCHANGED <<nbServer, nbList, showDeleteDialog, nbRoute, notNotebook>>

\* A handleDelete that navigates as soon as the delete has resolved and
\* reloads the list afterwards.
DeleteResolvedNavigateFirst(i) ==
    /\ hdPc[i] = "awaitDelete"
    /\ PropsNotebook \in nbServer
    /\ nbServer' = nbServer \ {PropsNotebook}
    /\ deleting' = FALSE
    /\ showDeleteDialog' = FALSE
    /\ nbRoute' = "NotebookList"
    /\ hdPc' = [hdPc EXCEPT ![i] = "awaitReload"]
    /\ nbLog' = nbLog \o << <<"deleteResolved", i>>, <<"navigate", i>>,
                            <<"closeDialog", i>>, <<"reloadCall", i>> >>
    /\ nbLastOp' = "deleteResolved"
    /\ UNCHANGED <<nbList, nbClicks, notNotebook>>

\* The remote delete succeeds and `await notebook.deleteNotebook()`
\* returns: showDeleteDialog.value = false, then useNotebooks().reload()
\* is called and awaited.
DeleteResolved(i) ==
    /\ hdPc[i] = "awaitDelete"
    /\ DeleteNotebookSucceeded
    /\ showDeleteDialog' = FALSE
    /\ hdPc' = [hdPc EXCEPT ![i] = "awaitReload"]
    /\ nbLog' = nbLog \o << <<"deleteResolved", i>>, <<"closeDialog", i>>,
                            <<"reloadCall", i>> >>
    /\ nbLastOp' = "deleteResolved"
    /\ UNCHANGED <<nbList, nbClicks, nbRoute, notNotebook>>

\* A handleDelete that swallows the failure and carries on.
DeleteRejectedCarriesOn(i) ==
    /\ hdPc[i] = "awaitDelete"
    /\ deleting' = FALSE
    /\ showDeleteDialog' = FALSE
    /\ hdPc' = [hdPc EXCEPT ![i] = "deleteRejected"]
    /\ nbLog' = nbLog \o << <<"deleteRejected", i>>, <<"closeDialog", i>>,
                            <<"reloadCall", i>> >>
    /\ nbLastOp' = "deleteRejected"
    /\ UNCHANGED <<nbServer, nbList, nbClicks, nbRoute, notNotebook>>

\* The remote delete fails: the await throws and handleDelete's promise
\* rejects; nothing after line 40 runs.
DeleteRejected(i) ==
    /\ hdPc[i] = "awaitDelete"
    /\ DeleteNotebookFailed
    /\ hdPc' = [hdPc EXCEPT ![i] = "deleteRejected"]
    /\ nbLog' = Append(nbLog, <<"deleteRejected", i>>)
    /\ nbLastOp' = "deleteRejected"
    /\ UNCHANGED <<nbList, showDeleteDialog, nbClicks, nbRoute, notNotebook>>

\* useNotebooks().reload() resolves with the server's notebooks, and
\* router.push({ name: 'NotebookList' }) follows.
ReloadResolved(i) ==
    /\ hdPc[i] = "awaitReload"
    /\ NotebooksReloaded
    /\ nbRoute' = "NotebookList"
    /\ hdPc' = [hdPc EXCEPT ![i] = "done"]
    /\ nbLog' = nbLog \o << <<"reloadResolved", i>>, <<"navigate", i>> >>
    /\ nbLastOp' = "reloadResolved"
    /\ UNCHANGED <<nbServer, showDeleteDialog, deleting, nbClicks, notNotebook>>

\* useNotebooks().reload() rejects: handleDelete rejects before router.push.
ReloadRejected(i) ==
    /\ hdPc[i] = "awaitReload"
    /\ hdPc' = [hdPc EXCEPT ![i] = "reloadRejected"]
    /\ nbLog' = Append(nbLog, <<"reloadRejected", i>>)
    /\ nbLastOp' = "reloadRejected"
    /\ UNCHANGED <<nbServer, nbList, showDeleteDialog, deleting, nbClicks,
                   nbRoute, notNotebook>>

NextNotebook ==
    \/ OpenDeleteDialog
    \/ CancelDelete
    \/ ClickYes
    \/ \E i \in DeleteClicks : DeleteResolved(i)
    \/ \E i \in DeleteClicks : DeleteRejected(i)
    \/ \E i \in DeleteClicks : ReloadResolved(i)
    \/ \E i \in DeleteClicks : ReloadRejected(i)

\* The events of one click's handleDelete run, in the order they happened.
EventsOf(i) ==
    LET Mine(e) == e[2] = i
        mine == SelectSeq(nbLog, Mine)
    IN  [k \in 1..Len(mine) |-> mine[k][1]]

IsPrefix(s, t) == Len(s) <= Len(t) /\ s = SubSeq(t, 1, Len(s))

\* handleDelete, line by line, when every await resolves.
HandleDeleteOrder ==
    <<"deleteCall", "deleteResolved", "closeDialog", "reloadCall",
      "reloadResolved", "navigate">>

\* ======================================================================
\* Chart block: setup and the Add to Dashboard dialog
\* ======================================================================
InitChart ==
    /\ cbPc = "unmounted"
    /\ chartNameProp = Undefined
    /\ chart = Null
    /\ createCalls = 0
    /\ createReturned = Null
    /\ cbEmits = <<>>
    /\ showDashboardDialog = FALSE
    /\ toDashboard = Null
    /\ addClicks = 0
    /\ addPc = [i \in AddClicks |-> "idle"]
    /\ addCalls = <<>>
    /\ notifications = <<>>
    /\ cbLastOp = <<"none", 0>>

setupVars == <<cbPc, chartNameProp, chart, createCalls, createReturned, cbEmits>>
dialogVars == <<showDashboardDialog, toDashboard, addClicks, addPc, addCalls,
                notifications>>

\* The block is mounted with props.chartName = name and its setup runs to
\* the first await:
\*   if (!props.chartName) { const chartName = await createChart() ... }
\*   else { chart = useChart(props.chartName) } ... await queries.reload()
MountChartBlock(name) ==
    /\ cbPc = "unmounted"
    /\ chartNameProp' = name
    /\ IF Falsy(name)
          THEN /\ createCalls' = createCalls + 1
               /\ cbPc' = "awaitCreate"
               /\ UNCHANGED chart
          ELSE /\ chart' = name
               /\ cbPc' = "awaitReload"
               /\ UNCHANGED createCalls
    /\ cbLastOp' = <<"mount", 0>>
    /\ UNCHANGED <<createReturned, cbEmits, dialogVars, notChart>>

\* A setup that binds to the prop after the create.
CreateChartResolvedBindsProp(name) ==
    /\ cbPc = "awaitCreate"
    /\ createReturned' = name
    /\ cbEmits' = Append(cbEmits, <<"setChartName", name>>)
    /\ chart' = chartNameProp
    /\ cbPc' = "awaitReload"
    /\ cbLastOp' = <<"createResolved", 0>>
    /\ UNCHANGED <<chartNameProp, createCalls, dialogVars, notChart>>

\* createChart() resolves with the new chart's name:
\*   emit('setChartName', chartName); chart = useChart(chartName)
\* and setup goes on to await queries.reload().
CreateChartResolved(name) ==
    /\ cbPc = "awaitCreate"
    /\ createReturned' = name
    /\ cbEmits' = Append(cbEmits, <<"setChartName", name>>)
    /\ chart' = name
    /\ cbPc' = "awaitReload"
    /\ cbLastOp' = <<"createResolved", 0>>
    /\ UNCHANGED <<chartNameProp, createCalls, dialogVars, notChart>>

\* createChart() rejects: setup rejects at line 21.
CreateChartRejected ==
    /\ cbPc = "awaitCreate"
    /\ cbPc' = "createFailed"
    /\ cbLastOp' = <<"createRejected", 0>>
    /\ UNCHANGED <<chartNameProp, chart, createCalls, createReturned, cbEmits,
                   dialogVars, notChart>>

\* await queries.reload() resolves: setup completes and the block renders.
QueriesReloadResolved ==
    /\ cbPc = "awaitReload"
    /\ cbPc' = "ready"
    /\ cbLastOp' = <<"queriesReloaded", 0>>
    /\ UNCHANGED <<chartNameProp, chart, createCalls, createReturned, cbEmits,
                   dialogVars, notChart>>

\* await queries.reload() rejects: setup rejects at line 35.
QueriesReloadRejected ==
    /\ cbPc = "awaitReload"
    /\ cbPc' = "reloadFailed"
    /\ cbLastOp' = <<"queriesReloadRejected", 0>>
    /\ UNCHANGED <<chartNameProp, chart, createCalls, createReturned, cbEmits,
                   dialogVars, notChart>>

\* BlockAction "Add to dashboard": () => (showDashboardDialog = true)
OpenDashboardDialog ==
    /\ cbPc = "ready"
    /\ ~showDashboardDialog
    /\ showDashboardDialog' = TRUE
    /\ cbLastOp' = <<"open", 0>>
    /\ UNCHANGED <<setupVars, toDashboard, addClicks, addPc, addCalls,
                   notifications, notChart>>

\* <Dialog v-model="showDashboardDialog">: the dialog is dismissed.
CloseDashboardDialog ==
    /\ cbPc = "ready"
    /\ showDashboardDialog
    /\ showDashboardDialog' = FALSE
    /\ cbLastOp' = <<"close", 0>>
    /\ UNCHANGED <<setupVars, toDashboard, addClicks, addPc, addCalls,
                   notifications, notChart>>

\* <Autocomplete v-model="toDashboard">: an option is picked, or the
\* selection is cleared.
SelectDashboard(d) ==
    /\ cbPc = "ready"
    /\ showDashboardDialog
    /\ toDashboard # d
    /\ toDashboard' = d
    /\ cbLastOp' = <<"select", 0>>
    /\ UNCHANGED <<setupVars, showDashboardDialog, addClicks, addPc, addCalls,
                   notifications, notChart>>

\* const addingToDashboard = ref(false): bound to the Add button's
\* :loading and never assigned.
addingToDashboard == FALSE

\* A click on Add runs addToDashboard up to its await:
\*   if (!toDashboard.value) return
\*   await chart.addToDashboard(toDashboard.value.value)
ClickAdd ==
    /\ cbPc = "ready"
    /\ showDashboardDialog
    /\ ~addingToDashboard
    /\ addClicks < MaxAddClicks
    /\ addClicks' = addClicks + 1
    /\ IF Falsy(toDashboard)
          THEN /\ addPc' = [addPc EXCEPT ![addClicks + 1] = "returned"]
               /\ cbLastOp' = <<"addReturned", addClicks + 1>>
               /\ UNCHANGED addCalls
          ELSE /\ addPc' = [addPc EXCEPT ![addClicks + 1] = "awaitAdd"]
               /\ addCalls' = Append(addCalls, <<addClicks + 1, toDashboard>>)
               /\ cbLastOp' = <<"addCalled", addClicks + 1>>
    /\ UNCHANGED <<setupVars, showDashboardDialog, toDashboard, notifications,
                   notChart>>

\* chart.addToDashboard resolves:
\*   showDashboardDialog.value = false
\*   $notify({ appearance: 'success', ... })
AddResolved(i) ==
    /\ addPc[i] = "awaitAdd"
    /\ showDashboardDialog' = FALSE
    /\ notifications' = Append(notifications, <<"success", i>>)
    /\ addPc' = [addPc EXCEPT ![i] = "done"]
    /\ cbLastOp' = <<"addResolved", i>>
    /\ UNCHANGED <<setupVars, toDashboard, addClicks, addCalls, notChart>>

\* An addToDashboard that catches the failure and notifies it.
AddRejectedNotifies(i) ==
    /\ addPc[i] = "awaitAdd"
    /\ addPc' = [addPc EXCEPT ![i] = "rejected"]
    /\ notifications' = Append(notifications, <<"error", i>>)
    /\ cbLastOp' = <<"addRejected", i>>
    /\ UNCHANGED <<setupVars, showDashboardDialog, toDashboard, addClicks,
                   addCalls, notChart>>

\* chart.addToDashboard rejects: the await throws and addToDashboard's
\* promise rejects; there is no catch, and lines 79-84 do not run.
AddRejected(i) ==
    /\ addPc[i] = "awaitAdd"
    /\ addPc' = [addPc EXCEPT ![i] = "rejected"]
    /\ cbLastOp' = <<"addRejected", i>>
    /\ UNCHANGED <<setupVars, showDashboardDialog, toDashboard, addClicks,
                   addCalls, notifications, notChart>>

NextChart ==
    \/ \E name \in ChartNameProps : MountChartBlock(name)
    \/ \E name \in NewChartNames : CreateChartResolved(name)
    \/ CreateChartRejected
    \/ QueriesReloadResolved
    \/ QueriesReloadRejected
    \/ OpenDashboardDialog
    \/ CloseDashboardDialog
    \/ \E d \in Dashboards \cup {Null} : SelectDashboard(d)
    \/ ClickAdd
    \/ \E i \in AddClicks : AddResolved(i)
    \/ \E i \in AddClicks : AddRejected(i)

\* The remote calls and the notifications of one click on Add.
AddCallsOf(i) == SelectSeq(addCalls, LAMBDA c : c[1] = i)
NotificationsOf(i) == SelectSeq(notifications, LAMBDA n : n[2] = i)

\* ======================================================================
\* Query list page: the type-selector dialog and openQueryEditor
\* ======================================================================
QueryListRoute == [name |-> "QueryList", params |-> <<>>]

InitQueryList ==
    /\ new_dialog = FALSE
    /\ showEmits = <<>>
    /\ optionClicks = [k \in Options |-> 0]
    /\ handlerCalls = [k \in Options |-> 0]
    /\ typeClicks = 0
    /\ oqePc = [j \in TypeClicks |-> "idle"]
    /\ oqeType = [j \in TypeClicks |-> Undefined]
    /\ oqeNotebook = [j \in TypeClicks |-> Undefined]
    /\ qlNotebooks = {}
    /\ qlReloading = TRUE
    /\ qlCalls = <<>>
    /\ qlRoute = QueryListRoute

\* The page's controls exist while the page is the route shown.
QueryListMounted == qlRoute = QueryListRoute

\* The notebooks.reload() called, unawaited, at setup settles: resolved
\* with the server's rows, or rejected with the list left as it was.
QlNotebooksReloaded(rows) ==
    /\ qlReloading
    /\ qlReloading' = FALSE
    /\ qlNotebooks' = rows
    /\ UNCHANGED <<new_dialog, showEmits, optionClicks, handlerCalls,
                   typeClicks, oqePc, oqeType, oqeNotebook, qlCalls, qlRoute,
                   notQueryList>>

QlNotebooksReloadRejected ==
    /\ qlReloading
    /\ qlReloading' = FALSE
    /\ UNCHANGED <<new_dialog, showEmits, optionClicks, handlerCalls,
                   typeClicks, oqePc, oqeType, oqeNotebook, qlNotebooks,
                   qlCalls, qlRoute, notQueryList>>

\* ListView action New Query: handler: () => (new_dialog = true)
OpenNewDialog ==
    /\ QueryListMounted
    /\ ~new_dialog
    /\ new_dialog' = TRUE
    /\ UNCHANGED <<showEmits, optionClicks, handlerCalls, typeClicks, oqePc,
                   oqeType, oqeNotebook, qlNotebooks, qlReloading, qlCalls,
                   qlRoute, notQueryList>>

\* <Dialog v-model="show"> is dismissed: the computed's setter emits
\* 'update:show' with false and the page's v-model:show stores it.
DismissNewDialog ==
    /\ QueryListMounted
    /\ new_dialog
    /\ Len(showEmits) < MaxDismissals
    /\ showEmits' = Append(showEmits, FALSE)
    /\ new_dialog' = FALSE
    /\ UNCHANGED <<optionClicks, handlerCalls, typeClicks, oqePc, oqeType,
                   oqeNotebook, qlNotebooks, qlReloading, qlCalls, qlRoute,
                   notQueryList>>

\* notebooks.list.find((notebook) => notebook.title === 'Uncategorized')
FindUncategorized ==
    IF \E row \in qlNotebooks : row.title = "Uncategorized"
       THEN (CHOOSE row \in qlNotebooks : row.title = "Uncategorized").name
       ELSE Undefined

\* An openQueryEditor that reads the name with optional chaining and so
\* goes on to createPage with an undefined notebook.
OpenQueryEditorOptionalChaining(j, type) ==
    /\ oqeType' = [oqeType EXCEPT ![j] = type]
    /\ IF type = "notebook"
          THEN /\ oqeNotebook' = [oqeNotebook EXCEPT ![j] = FindUncategorized]
               /\ qlCalls' = Append(qlCalls, <<"createPage", j, FindUncategorized>>)
               /\ oqePc' = [oqePc EXCEPT ![j] = "awaitCreatePage"]
          ELSE /\ qlCalls' = Append(qlCalls,
                      <<"createQuery", j, IF type = "visual" THEN 1 ELSE 0>>)
               /\ oqePc' = [oqePc EXCEPT ![j] = "awaitCreateQuery"]
               /\ UNCHANGED oqeNotebook

\* openQueryEditor(type), run by click j up to its first await.  For
\* 'notebook', reading uncategorized.name of an undefined find result
\* throws, and the async function returns a rejected promise.
OpenQueryEditor(j, type) ==
    /\ oqeType' = [oqeType EXCEPT ![j] = type]
    /\ IF type = "notebook"
          THEN IF FindUncategorized = Undefined
                  THEN /\ oqePc' = [oqePc EXCEPT ![j] = "threw"]
                       /\ UNCHANGED <<oqeNotebook, qlCalls>>
                  ELSE /\ oqeNotebook' = [oqeNotebook EXCEPT ![j] = FindUncategorized]
                       /\ qlCalls' = Append(qlCalls, <<"createPage", j, FindUncategorized>>)
                       /\ oqePc' = [oqePc EXCEPT ![j] = "awaitCreatePage"]
          ELSE /\ qlCalls' = Append(qlCalls,
                      <<"createQuery", j, IF type = "visual" THEN 1 ELSE 0>>)
               /\ oqePc' = [oqePc EXCEPT ![j] = "awaitCreateQuery"]
               /\ UNCHANGED oqeNotebook

\* A dialog that closes itself when an option is picked.
ClickOptionClosesDialog(k) ==
    /\ QueryListMounted
    /\ new_dialog
    /\ typeClicks < MaxTypeClicks
    /\ typeClicks' = typeClicks + 1
    /\ optionClicks' = [optionClicks EXCEPT ![k] = @ + 1]
    /\ handlerCalls' = [handlerCalls EXCEPT ![k] = @ + 1]
    /\ OpenQueryEditor(typeClicks + 1, QueryBuilderTypes[k])
    /\ showEmits' = Append(showEmits, FALSE)
    /\ new_dialog' = FALSE
    /\ UNCHANGED <<qlNotebooks, qlReloading, qlRoute, notQueryList>>

\* A click on option k of the dialog: @click="type.handler()", with the
\* handler the page gave that option: () => openQueryEditor(<its type>).
ClickOption(k) ==
    /\ QueryListMounted
    /\ new_dialog
    /\ typeClicks < MaxTypeClicks
    /\ typeClicks' = typeClicks + 1
    /\ optionClicks' = [optionClicks EXCEPT ![k] = @ + 1]
    /\ handlerCalls' = [handlerCalls EXCEPT ![k] = @ + 1]
    /\ OpenQueryEditor(typeClicks + 1, QueryBuilderTypes[k])
    /\ UNCHANGED <<new_dialog, showEmits, qlNotebooks, qlReloading, qlRoute,
                   notQueryList>>

\* notebooks.createPage resolves: router.push to the new notebook page.
CreatePageResolved(j, page) ==
    /\ oqePc[j] = "awaitCreatePage"
    /\ oqePc' = [oqePc EXCEPT ![j] = "done"]
    /\ qlRoute' = [name |-> "NotebookPage", params |-> <<oqeNotebook[j], page>>]
    /\ UNCHANGED <<new_dialog, showEmits, optionClicks, handlerCalls,
                   typeClicks, oqeType, oqeNotebook, qlNotebooks, qlReloading,
                   qlCalls, notQueryList>>

\* queries.create resolves: router.push to the query builder.
CreateQueryResolved(j, query) ==
    /\ oqePc[j] = "awaitCreateQuery"
    /\ oqePc' = [oqePc EXCEPT ![j] = "done"]
    /\ qlRoute' = [name |-> "QueryBuilder", params |-> <<query>>]
    /\ UNCHANGED <<new_dialog, showEmits, optionClicks, handlerCalls,
                   typeClicks, oqeType, oqeNotebook, qlNotebooks, qlReloading,
                   qlCalls, notQueryList>>

\* The remote create of click j rejects: openQueryEditor rejects there.
CreateRejected(j) ==
    /\ oqePc[j] \in {"awaitCreatePage", "awaitCreateQuery"}
    /\ oqePc' = [oqePc EXCEPT ![j] = "rejected"]
    /\ UNCHANGED <<new_dialog, showEmits, optionClicks, handlerCalls,
                   typeClicks, oqeType, oqeNotebook, qlNotebooks, qlReloading,
                   qlCalls, qlRoute, notQueryList>>

NextQueryList ==
    \/ \E rows \in SUBSET NotebookRows : QlNotebooksReloaded(rows)
    \/ QlNotebooksReloadRejected
    \/ OpenNewDialog
    \/ DismissNewDialog
    \/ \E k \in Options : ClickOption(k)
    \/ \E j \in TypeClicks, page \in NewPageNames : CreatePageResolved(j, page)
    \/ \E j \in TypeClicks, query \in NewQueryNames : CreateQueryResolved(j, query)
    \/ \E j \in TypeClicks : CreateRejected(j)

\* ======================================================================
\* Query selector: createQuery, deleteQuery (Discard), selectQuery (Done)
\* ======================================================================
InitQuerySelector ==
    /\ qsServer = {}
    /\ qsCreated = {}
    /\ qsCreating = 0
    /\ newQuery = Null
    /\ showCreateQuery = FALSE
    /\ qsDeleting = FALSE
    /\ qsClicks = 0
    /\ qsPc = [i \in SelectorClicks |-> "idle"]
    /\ qsArg = [i \in SelectorClicks |-> Null]
    /\ qsDeleteCalls = {}
    /\ qsEmits = <<>>

\* Autocomplete @createOption="createQuery", to the await:
\*   newQuery.value = await queries.create({ is_assisted_query: 1 })
\* The Autocomplete is out of reach while the modal dialog is shown.
CreateQueryCalled ==
    /\ ~showCreateQuery
    /\ Cardinality(qsCreated) + qsCreating < Cardinality(SelectorQueryNames)
    /\ qsCreating' = qsCreating + 1
    /\ UNCHANGED <<qsServer, qsCreated, newQuery, showCreateQuery, qsDeleting,
                   qsClicks, qsPc, qsArg, qsDeleteCalls, qsEmits,
                   notQuerySelector>>

\* queries.create resolves with a new query: newQuery.value is assigned and
\* showCreateQuery.value = true.
SelectorCreateResolved(name) ==
    /\ qsCreating > 0
    /\ name \notin qsCreated
    /\ qsCreating' = qsCreating - 1
    /\ qsCreated' = qsCreated \cup {name}
    /\ qsServer' = qsServer \cup {name}
    /\ newQuery' = name
    /\ showCreateQuery' = TRUE
    /\ UNCHANGED <<qsDeleting, qsClicks, qsPc, qsArg, qsDeleteCalls, qsEmits,
                   notQuerySelector>>

\* queries.create rejects: createQuery rejects at line 80.
SelectorCreateRejected ==
    /\ qsCreating > 0
    /\ qsCreating' = qsCreating - 1
    /\ UNCHANGED <<qsServer, qsCreated, newQuery, showCreateQuery, qsDeleting,
                   qsClicks, qsPc, qsArg, qsDeleteCalls, qsEmits,
                   notQuerySelector>>

\* The dialog's buttons are rendered inside <div v-if="newQuery"> of the
\* shown dialog.
SelectorButtonsShown == showCreateQuery /\ ~Falsy(newQuery)

\* <Button ... @click="deleteQuery" :loading="queries.deleting">: a loading
\* Button is disabled and dispatches no click.
DiscardEnabled == ~qsDeleting

\* queries.delete(name) is called: the binding raises its deleting flag for
\* the length of the remote call.
QueriesDeleteCalled == qsDeleting' = TRUE

\* The remote delete succeeded: the server no longer holds the query and
\* the binding lowers its deleting flag.
QueriesDeleteSucceeded(name) ==
    /\ name \in qsServer
    /\ qsServer' = qsServer \ {name}
    /\ qsDeleting' = FALSE

\* The remote delete failed.  Whether the binding lowers its deleting flag
\* on a failure is not fixed: either may happen.
QueriesDeleteFailed ==
    /\ \E flag \in BOOLEAN : qsDeleting' = flag
    /\ UNCHANGED qsServer

\* A click on Discard runs deleteQuery to its await:
\*   await queries.delete(newQuery.value.name)
ClickDiscard ==
    /\ SelectorButtonsShown
    /\ DiscardEnabled
    /\ qsClicks < MaxSelectorClicks
    /\ qsClicks' = qsClicks + 1
    /\ qsPc' = [qsPc EXCEPT ![qsClicks + 1] = "awaitDelete"]
    /\ qsArg' = [qsArg EXCEPT ![qsClicks + 1] = newQuery]
    /\ qsDeleteCalls' = qsDeleteCalls \cup {newQuery}
    /\ QueriesDeleteCalled
    /\ UNCHANGED <<qsServer, qsCreated, qsCreating, newQuery, showCreateQuery,
                   qsEmits, notQuerySelector>>

\* queries.delete resolves: showCreateQuery.value = false;
\* newQuery.value = null
DiscardResolved(i) ==
    /\ qsPc[i] = "awaitDelete"
    /\ QueriesDeleteSucceeded(qsArg[i])
    /\ showCreateQuery' = FALSE
    /\ newQuery' = Null
    /\ qsPc' = [qsPc EXCEPT ![i] = "done"]
    /\ UNCHANGED <<qsCreated, qsCreating, qsClicks, qsArg, qsDeleteCalls,
                   qsEmits, notQuerySelector>>

\* queries.delete rejects: deleteQuery rejects at line 84.
DiscardRejected(i) ==
    /\ qsPc[i] = "awaitDelete"
    /\ QueriesDeleteFailed
    /\ qsPc' = [qsPc EXCEPT ![i] = "rejected"]
    /\ UNCHANGED <<qsCreated, qsCreating, newQuery, showCreateQuery, qsClicks,
                   qsArg, qsDeleteCalls, qsEmits, notQuerySelector>>

\* A click on Done runs selectQuery to its await: await queries.reload().
\* The Done button has no loading or disabled binding.
ClickDone ==
    /\ SelectorButtonsShown
    /\ qsClicks < MaxSelectorClicks
    /\ qsClicks' = qsClicks + 1
    /\ qsPc' = [qsPc EXCEPT ![qsClicks + 1] = "awaitReload"]
    /\ UNCHANGED <<qsServer, qsCreated, qsCreating, newQuery, showCreateQuery,
                   qsDeleting, qsArg, qsDeleteCalls, qsEmits, notQuerySelector>>

\* queries.reload() resolves:
\*   emit('update:modelValue', newQuery.value.name)
\*   showCreateQuery.value = false; newQuery.value = null
\* Reading .name of a null newQuery.value throws, and selectQuery rejects
\* at line 90 with nothing emitted.
DoneResolved(i) ==
    /\ qsPc[i] = "awaitReload"
    /\ IF newQuery = Null
          THEN /\ qsPc' = [qsPc EXCEPT ![i] = "threw"]
               /\ UNCHANGED <<qsEmits, showCreateQuery, newQuery>>
          ELSE /\ qsEmits' = Append(qsEmits, newQuery)
               /\ showCreateQuery' = FALSE
               /\ newQuery' = Null
               /\ qsPc' = [qsPc EXCEPT ![i] = "done"]
    /\ UNCHANGED <<qsServer, qsCreated, qsCreating, qsDeleting, qsClicks,
                   qsArg, qsDeleteCalls, notQuerySelector>>

\* queries.reload() rejects: selectQuery rejects at line 89.
DoneRejected(i) ==
    /\ qsPc[i] = "awaitReload"
    /\ qsPc' = [qsPc EXCEPT ![i] = "rejected"]
    /\ UNCHANGED <<qsServer, qsCreated, qsCreating, newQuery, showCreateQuery,
                   qsDeleting, qsClicks, qsArg, qsDeleteCalls, qsEmits,
                   notQuerySelector>>

NextQuerySelector ==
    \/ CreateQueryCalled
    \/ \E name \in SelectorQueryNames : SelectorCreateResolved(name)
    \/ SelectorCreateRejected
    \/ ClickDiscard
    \/ \E i \in SelectorClicks : DiscardResolved(i)
    \/ \E i \in SelectorClicks : DiscardRejected(i)
    \/ ClickDone
    \/ \E i \in SelectorClicks : DoneResolved(i)
    \/ \E i \in SelectorClicks : DoneRejected(i)

\* ======================================================================
\* Specifications
\* ======================================================================
\* The components share no state: a step of one leaves the others' variables
\* unchanged, so each is explored under a specification of its own steps.
Init ==
    /\ InitResource
    /\ InitToast
    /\ InitNotebook
    /\ InitChart
    /\ InitQueryList
    /\ InitQuerySelector

SpecResource == Init /\ [][NextResource]_vars
SpecToast == Init /\ [][NextToast]_vars
SpecNotebook == Init /\ [][NextNotebook]_vars
SpecChart == Init /\ [][NextChart]_vars
SpecQueryList == Init /\ [][NextQueryList]_vars
SpecQuerySelector == Init /\ [][NextQuerySelector]_vars

\* ======================================================================
\* Claims
\* ======================================================================

\* C1: a triggerFetch made while the resource's get request is loading
\* issues no fetch and queues none, so at most one get fetch is in flight
\* per resource instance: the invariant bounds the fetches in flight, the
\* step property says that a triggerFetch step taken while loading leaves
\* the fetches issued and in flight as they were, and that a settling
\* fetch starts no new one.
C1_TriggerFetchDeduplicated ==
    /\ [](\A r \in Resources : inFlight[r] <= 1)
    /\ [][\A r \in Resources :
            /\ (getLoading[r] /\ trigCalls'[r] = trigCalls[r] + 1)
                  => (fetchCalls'[r] = fetchCalls[r] /\ inFlight'[r] = inFlight[r])
            /\ (inFlight'[r] < inFlight[r])
                  => (fetchCalls'[r] = fetchCalls[r] /\ inFlight'[r] = inFlight[r] - 1)
         ]_vars

\* C1 witness: a fetch is in flight and more triggerFetch calls were made
\* than fetches issued by them, so one was dropped while loading.
C1_Witness ==
    \E r \in Resources :
        /\ inFlight[r] = 1
        /\ getLoading[r]
        /\ fetchCalls[r] >= 1
        /\ trigCalls[r] > fetchCalls[r]

\* C2: a Toast is shown as soon as it is mounted and stays shown exactly
\* until it is dismissed or its timer fires; after either it is not shown,
\* also when the pending timer fires after a manual dismiss, and a mounted
\* toast that is hidden is never shown again.
C2_ToastShownUntilTimeoutOrDismiss ==
    /\ [](\A t \in Toasts :
            /\ toastPc[t] # "mounted" => ~shown[t]
            /\ toastPc[t] = "mounted" =>
                  (shown[t] <=> (timer[t] = "pending" /\ ~dismissed[t])))
    /\ [][\A t \in Toasts :
            (toastPc[t] = "mounted" /\ ~shown[t]) => ~shown'[t]]_vars

\* C2 witness: the toast was dismissed by hand and its timer has fired
\* afterwards.
C2_Witness ==
    \E t \in Toasts :
        /\ dismissed[t]
        /\ timer[t] = "fired"
        /\ ~shown[t]

AnyToastCreated == \E t \in Toasts : toastPc[t] # "none"

\* C3: the toast root is created by the first Toast created and reused by
\* the later ones: no root before the first creation, exactly one after
\* it, whatever was created and dismissed since, and no step removes it.
C3_SingletonToastRoot ==
    /\ [](rootCount = IF AnyToastCreated THEN 1 ELSE 0)
    /\ [][rootCount' >= rootCount]_vars

\* C3 witness: two toasts have been created, one of them dismissed, and
\* the document holds one root.
C3_Witness ==
    /\ \E t, u \in Toasts :
          /\ t # u
          /\ toastPc[t] = "mounted" /\ dismissed[t]
          /\ toastPc[u] # "none"
    /\ rootCount = 1

\* C5: each confirmed delete runs the remote deleteNotebook call, the
\* closing of the dialog, the reload of the notebooks list and the
\* navigation to NotebookList in that order, the dialog closing and the
\* reload starting only after the delete has resolved and the navigation
\* only after the reload has resolved; a run that got to the end went
\* through all six steps, and from then on the deleted notebook is not in
\* the notebooks list.
C5_DeleteThenReloadThenNavigate ==
    \A i \in DeleteClicks :
        LET Settled(e) == e \notin {"deleteRejected", "reloadRejected"}
        IN  /\ IsPrefix(SelectSeq(EventsOf(i), Settled), HandleDeleteOrder)
            /\ hdPc[i] = "done" =>
                  /\ EventsOf(i) = HandleDeleteOrder
                  /\ PropsNotebook \notin nbList
                  /\ nbRoute = "NotebookList"

\* C5 witness: a handleDelete run has finished: the list was reloaded
\* without the notebook and the list page is shown.
C5_Witness ==
    \E i \in DeleteClicks :
        /\ hdPc[i] = "done"
        /\ nbList = Notebooks \ {PropsNotebook}
        /\ nbRoute = "NotebookList"

\* C6: a Cancel step closes the dialog and changes nothing else: no remote
\* call is issued, no handler moves, the server's notebooks and the local
\* notebooks list stay as they were and the route does not change.
C6_CancelOnlyClosesDialog ==
    [][nbLastOp' = "cancel" =>
          /\ ~showDeleteDialog'
          /\ UNCHANGED <<nbServer, nbList, deleting, nbClicks, hdPc, nbLog,
                         nbRoute>>]_vars

\* C6 witness: the dialog was opened and cancelled: it is closed, nothing
\* was called and the list is the full one.
C6_Witness ==
    /\ nbLastOp = "cancel"
    /\ ~showDeleteDialog
    /\ nbLog = <<>>
    /\ nbList = Notebooks

\* C9: while a deleteNotebook call is pending the Yes button takes no
\* click: at most one delete call is in flight, between any two delete
\* calls the first one has settled, and a click made on the disabled
\* button starts nothing (no delete call, no reload, no navigation).
C9_NoSecondDeleteWhilePending ==
    /\ Cardinality({i \in DeleteClicks : hdPc[i] = "awaitDelete"}) <= 1
    /\ \A p, q \in DOMAIN nbLog :
          (p < q /\ nbLog[p][1] = "deleteCall" /\ nbLog[q][1] = "deleteCall")
             => \E r \in p..q :
                   /\ nbLog[r][1] \in {"deleteResolved", "deleteRejected"}
                   /\ nbLog[r][2] = nbLog[p][2]
    /\ \A i \in DeleteClicks : hdPc[i] = "ignored" => EventsOf(i) = <<>>

\* C9 witness: a second click came while the first click's delete call
\* was still pending, and was not taken.
C9_Witness ==
    \E i, j \in DeleteClicks :
        /\ i < j
        /\ hdPc[i] = "awaitDelete"
        /\ hdPc[j] = "ignored"
        /\ deleting

\* C10: when the deleteNotebook call rejects, handleDelete ends there: the
\* rejecting step leaves the dialog, the notebooks list and the route as
\* they were, and that run never calls deleteNotebook again, reloads the
\* list or navigates.
C10_DeleteRejectionStopsHandler ==
    /\ [](\A i \in DeleteClicks :
            hdPc[i] = "deleteRejected" =>
                EventsOf(i) = <<"deleteCall", "deleteRejected">>)
    /\ [][\A i \in DeleteClicks :
            (hdPc[i] = "awaitDelete" /\ hdPc'[i] = "deleteRejected") =>
                UNCHANGED <<showDeleteDialog, nbList, nbRoute, nbServer>>]_vars

\* C10 witness: a delete call has just been rejected, with the dialog open
\* on the notebook page.
C10_Witness ==
    \E i \in DeleteClicks :
        /\ hdPc[i] = "deleteRejected"
        /\ nbLastOp = "deleteRejected"
        /\ showDeleteDialog
        /\ nbRoute = "Notebook"
        /\ nbList = Notebooks

\* C4: a chart block mounted with no chartName makes exactly one
\* createChart call and, once that call has resolved, has emitted
\* 'setChartName' once, with the returned name, and is bound to that name;
\* a block mounted with a chartName makes no createChart call, emits no
\* 'setChartName' and is bound to the name it was given.
C4_CreateOnceOrBind ==
    /\ cbPc = "unmounted" => (createCalls = 0 /\ cbEmits = <<>> /\ chart = Null)
    /\ (cbPc # "unmounted" /\ Falsy(chartNameProp)) =>
          /\ createCalls = 1
          /\ cbPc \in {"awaitCreate", "createFailed"} =>
                (cbEmits = <<>> /\ chart = Null)
          /\ cbPc \in {"awaitReload", "ready", "reloadFailed"} =>
                /\ createReturned \in NewChartNames
                /\ cbEmits = << <<"setChartName", createReturned>> >>
                /\ chart = createReturned
    /\ (cbPc # "unmounted" /\ ~Falsy(chartNameProp)) =>
          /\ createCalls = 0
          /\ cbEmits = <<>>
          /\ chart = chartNameProp

\* C4 witness: a block mounted without a chartName has finished its setup,
\* bound to the name createChart returned.
C4_Witness ==
    /\ cbPc = "ready"
    /\ Falsy(chartNameProp)
    /\ createCalls = 1
    /\ chart = createReturned
    /\ chart \in NewChartNames

\* C7 (as claimed): every click on Add with a dashboard selected makes one
\* chart.addToDashboard call and surfaces its outcome: a success
\* notification, with the dialog closed, only once the call has resolved,
\* and a failure notification once it has rejected; a click with no
\* dashboard selected makes no call, shows no notification and leaves the
\* dialog open.
C7_AddNotifiesOutcome ==
    \A i \in AddClicks :
        /\ addPc[i] \in {"awaitAdd", "done", "rejected"} => Len(AddCallsOf(i)) = 1
        /\ addPc[i] = "awaitAdd" => NotificationsOf(i) = <<>>
        /\ addPc[i] = "done" => NotificationsOf(i) = << <<"success", i>> >>
        /\ cbLastOp = <<"addResolved", i>> => ~showDashboardDialog
        /\ addPc[i] = "rejected" =>
              \E k \in DOMAIN NotificationsOf(i) :
                  NotificationsOf(i)[k][1] \in {"error", "warning"}
        /\ addPc[i] \in {"idle", "returned"} =>
              (AddCallsOf(i) = <<>> /\ NotificationsOf(i) = <<>>)
        /\ cbLastOp = <<"addReturned", i>> => showDashboardDialog

\* C7 (amended): every click on Add with a dashboard selected makes one
\* chart.addToDashboard call; the success notification, with the dialog
\* closed, comes only once the call has resolved; when the call rejects
\* the action surfaces no notification and the rejecting step leaves the
\* dialog, the notifications and the calls as they were; a click with no
\* dashboard selected makes no call, shows no notification and leaves the
\* dialog open.
C7_AddNotifiesSuccessOnly ==
    /\ [](\A i \in AddClicks :
            /\ addPc[i] \in {"awaitAdd", "done", "rejected"} =>
                  Len(AddCallsOf(i)) = 1
            /\ addPc[i] = "awaitAdd" => NotificationsOf(i) = <<>>
            /\ addPc[i] = "done" => NotificationsOf(i) = << <<"success", i>> >>
            /\ cbLastOp = <<"addResolved", i>> => ~showDashboardDialog
            /\ addPc[i] = "rejected" => NotificationsOf(i) = <<>>
            /\ addPc[i] \in {"idle", "returned"} =>
                  (AddCallsOf(i) = <<>> /\ NotificationsOf(i) = <<>>)
            /\ cbLastOp = <<"addReturned", i>> => showDashboardDialog)
    /\ [][\A i \in AddClicks :
            (addPc[i] = "awaitAdd" /\ addPc'[i] = "rejected") =>
                UNCHANGED <<showDashboardDialog, notifications, addCalls>>]_vars

\* C7 witness: a chart.addToDashboard call has just been rejected: the
\* dialog is still open and nothing was notified.
C7_Witness ==
    \E i \in AddClicks :
        /\ addPc[i] = "rejected"
        /\ cbLastOp = <<"addRejected", i>>
        /\ Len(AddCallsOf(i)) = 1
        /\ showDashboardDialog
        /\ notifications = <<>>

\* C8: a click on an option of the type-selector dialog calls that
\* option's handler once and no other option's handler, and the dialog
\* emits no 'update:show' for it: the step of a click raises the clicked
\* option's handler calls by one, leaves the others, emits nothing and
\* leaves the show state as it was; so every option's handler has run as
\* often as the option was clicked, each time with the option's own type.
C8_OptionClickCallsItsHandlerOnly ==
    /\ [](/\ \A k \in Options : handlerCalls[k] = optionClicks[k]
          /\ \A j \in TypeClicks : oqePc[j] # "idle" =>
                \E k \in Options :
                    /\ oqeType[j] = QueryBuilderTypes[k]
                    /\ optionClicks[k] >= 1)
    /\ [][\A k \in Options :
            optionClicks'[k] # optionClicks[k] =>
                /\ handlerCalls' = [handlerCalls EXCEPT ![k] = @ + 1]
                /\ optionClicks' = [optionClicks EXCEPT ![k] = @ + 1]
                /\ showEmits' = showEmits
                /\ new_dialog' = new_dialog]_vars

\* C8 witness: one option has been clicked: its handler has run once, no
\* other has, and the dialog is still shown, nothing emitted.
C8_Witness ==
    \E k \in Options :
        /\ optionClicks[k] = 1
        /\ handlerCalls = [o \in Options |-> IF o = k THEN 1 ELSE 0]
        /\ new_dialog
        /\ showEmits = <<>>

\* The remote creates issued by click j's openQueryEditor.
QlCallsOf(j) == SelectSeq(qlCalls, LAMBDA c : c[2] = j)

\* C11: when notebooks.list holds no notebook titled 'Uncategorized', also
\* while the reload started at setup is still pending, a click on the
\* Notebook option makes openQueryEditor reject on the spot: the step
\* issues no remote call and leaves the route as it was, and that run
\* stays rejected, never having issued a createPage call or navigated.
C11_NoUncategorizedRejects ==
    /\ [](\A j \in TypeClicks :
            oqePc[j] = "threw" =>
                /\ oqeType[j] = "notebook"
                /\ oqeNotebook[j] = Undefined
                /\ QlCallsOf(j) = <<>>)
    /\ [][\A k \in Options :
            (/\ optionClicks'[k] # optionClicks[k]
             /\ QueryBuilderTypes[k] = "notebook"
             /\ ~\E row \in qlNotebooks : row.title = "Uncategorized") =>
                /\ oqePc'[typeClicks + 1] = "threw"
                /\ qlCalls' = qlCalls
                /\ qlRoute' = qlRoute]_vars
    /\ [][\A j \in TypeClicks : oqePc[j] = "threw" => oqePc'[j] = "threw"]_vars

\* C11 witness: the Notebook option was clicked while the reload of setup
\* was still pending: the run has rejected, no remote create was issued
\* and the query list is still the route shown.
C11_Witness ==
    \E j \in TypeClicks :
        /\ oqePc[j] = "threw"
        /\ qlReloading
        /\ qlNotebooks = {}
        /\ qlCalls = <<>>
        /\ qlRoute = QueryListRoute

\* C12 (as claimed): whatever the order of the Discard and Done clicks and
\* of the completions of their remote calls, 'update:modelValue' is never
\* emitted with the name of a query a delete call was issued for, and no
\* handler continuation reads newQuery.value.name of a null newQuery.
C12_NoEmitOfDeletedNoNullRead ==
    /\ \A k \in DOMAIN qsEmits : qsEmits[k] \notin qsDeleteCalls
    /\ \A i \in SelectorClicks : qsPc[i] # "threw"

====
